---------------------------- MODULE Spec2Model ----------------------------
(***************************************************************************)
(* A model of tester/testing.py, the test driver of the Javalette compiler *)
(* course: main() from the point where the backends are known (line 596),  *)
(* run_tests(), exec_test(), run_compiler() and the two link functions.    *)
(*                                                                         *)
(* Text (stderr, stdout, fixtures) is a sequence of one-character strings, *)
(* so that str.strip(), == and `in` are computed, not assumed.             *)
(***************************************************************************)
EXTENDS Integers, Sequences, FiniteSets, TLC

VARIABLES
    backends,     \* main: the list built from --llvm, --x86, --x64
    test_files,   \* run_tests: the list build_list() assembled
    pc,           \* position of the single thread of control
    suffix_i,     \* run_tests: index of `suffix` in backends (0: type check)
    test_i,       \* run_tests: index of the current test in test_files
    tests_ok,     \* run_tests
    tests_bad,    \* run_tests
    failures,     \* run_tests: list of (filename, data)
    printed,      \* run_tests: what lines 533-552 print, <<>> before
    data,         \* exec_test: the Struct run_compiler returned
    tmp,          \* link_llvm / link_x86: the names mkstemp returned
    files,        \* the regular files of the working directory
    exc,          \* the exception that is propagating, "none" otherwise
    failure,      \* main
    exit_code,    \* argument of sys.exit, -1 while the process runs
    trace,        \* history: child processes launched, in order
    passes,       \* history: (ok, bad) at the end of each completed pass
    fatal,        \* history: where the propagating exception was raised
    probe,        \* SpecClassify, SpecRun: one call of a half of exec_test
    created,      \* history: the names the link calls that returned used
    first,        \* SpecTwice: what the first of two runs saw and counted
    a_out         \* history: the link call that wrote the a.out on disk

vars == <<backends, test_files, pc, suffix_i, test_i, tests_ok, tests_bad,
          failures, printed, data, tmp, files, exc,
          failure, exit_code, trace, passes, fatal, probe, created, first,
          a_out>>

sessionVars == <<backends, test_files, pc, suffix_i, test_i, tests_ok,
                 tests_bad, failures, printed, data, tmp, files, exc,
                 failure, exit_code, trace, passes, fatal, created, first,
                 a_out>>

-----------------------------------------------------------------------------
(* Bounds *)

MaxTests == 2

MaxBackends == 2

MaxLen == 6

MaxOut == 2

MaxRerunTests == 1

-----------------------------------------------------------------------------
(* Text *)

\* The characters str.strip() removes that a compiler's stderr is likely to
\* hold (Python strips every character for which str.isspace() is true).
Whitespace == {" ", "\t", "\n", "\r"}

RECURSIVE lstrip(_)
lstrip(s) ==
    IF s # <<>> /\ Head(s) \in Whitespace THEN lstrip(Tail(s)) ELSE s

RECURSIVE rstrip(_)
rstrip(s) ==
    IF s # <<>> /\ s[Len(s)] \in Whitespace
    THEN rstrip(SubSeq(s, 1, Len(s) - 1))
    ELSE s

strip(s) == rstrip(lstrip(s))

\* Python's `sub in s` for strings.
str_in(sub, s) ==
    \E i \in 0..(Len(s) - Len(sub)) : SubSeq(s, i + 1, i + Len(sub)) = sub

\* What reading a file opened in text mode makes of its contents: open()
\* at line 261 has no newline argument, so "\r\n" and "\r" are read as
\* "\n".
RECURSIVE universal_newlines(_)
universal_newlines(s) ==
    IF s = <<>> THEN <<>>
    ELSE IF Head(s) # "\r" THEN <<Head(s)>> \o universal_newlines(Tail(s))
    ELSE IF Len(s) > 1 /\ s[2] = "\n"
         THEN <<"\n">> \o universal_newlines(SubSeq(s, 3, Len(s)))
         ELSE <<"\n">> \o universal_newlines(Tail(s))

OK == <<"O", "K">>

ERROR == <<"E", "R", "R", "O", "R">>

-----------------------------------------------------------------------------
(* run_compiler and the head of exec_test, as functions *)

NoLinker == "None"

BackendNames == <<"llvm", "x86", "x64">>

\* What a launched compiler hands back: child.stderr, child.returncode and
\* child.stdout.
CompilerResult(stderr, returncode, stdout) ==
    [stderr |-> stderr, returncode |-> returncode, stdout |-> stdout]

\* run_compiler, line 210: the stderr the checks and the Struct see.
run_compiler_stderr(child) == strip(child.stderr)

run_compiler_stderr_expected(is_good) == IF is_good THEN OK ELSE ERROR

\* A wrong run_compiler: substring semantics for good tests too.
run_compiler_check_substring(is_good, child) ==
    str_in(run_compiler_stderr_expected(is_good), run_compiler_stderr(child))
    /\ (child.returncode = 0) = is_good

\* A wrong run_compiler: for bad tests, ERROR or a non-zero exit is enough.
run_compiler_check_either(is_good, child) ==
    IF is_good
    THEN run_compiler_stderr(child) = run_compiler_stderr_expected(is_good)
         /\ child.returncode = 0
    ELSE str_in(run_compiler_stderr_expected(is_good),
                run_compiler_stderr(child))
         \/ child.returncode # 0

\* run_compiler, lines 217-222 and the call check(stderr) of line 224.
run_compiler_check(is_good, child) ==
    IF is_good
    THEN run_compiler_stderr(child) = run_compiler_stderr_expected(is_good)
         /\ child.returncode = 0
    ELSE str_in(run_compiler_stderr_expected(is_good),
                run_compiler_stderr(child))
         /\ child.returncode # 0

\* run_compiler, lines 224-229: the Struct.
run_compiler_data(is_good, child) ==
    [stderr_actual   |-> run_compiler_stderr(child),
     stderr_expected |-> run_compiler_stderr_expected(is_good),
     stdout_expected |-> <<>>,
     stdout_actual   |-> <<>>,
     stdout_compiler |-> child.stdout]

\* A wrong exec_test: line 250 without `not is_good`.
exec_test_quits_good_or_bad(compiler_success, is_good, linker) ==
    ~compiler_success \/ linker = NoLinker

\* exec_test, line 250: the test ends with the compiler's verdict.
exec_test_quits(compiler_success, is_good, linker) ==
    ~compiler_success \/ ~is_good \/ linker = NoLinker

-----------------------------------------------------------------------------
(* The session: what the environment can hand the driver *)

\* A test case of test_files: build_list's (path, is_good), with the
\* contents of <path>.output when exec_test finds that file.
TestCase(is_good, has_output, output) ==
    [is_good |-> is_good, has_output |-> has_output, output |-> output]

\* exec_test, lines 260-264: the expected output of test case t.
exec_test_stdout_expected(t) ==
    IF t.has_output THEN universal_newlines(t.output) ELSE <<>>

\* What a run of ./a.out hands back: child.stdout (decoded, which leaves
\* the text as it is), child.returncode and child.stderr.
ProgramResult(stdout, returncode, stderr) ==
    [stdout |-> stdout, returncode |-> returncode, stderr |-> stderr]

\* exec_test, lines 273 and 280.
exec_test_success(child, expected) == child.stdout = expected

TestCases ==
    { TestCase(TRUE, FALSE, <<>>), TestCase(TRUE, TRUE, <<"x">>),
      TestCase(FALSE, FALSE, <<>>) }

\* run_tests, lines 484-488: testsuite/good, then testsuite/bad, then the
\* extensions, which are good again.  os.listdir yields a directory in any
\* order and the tests do not affect one another, so of the corpora that
\* differ only in where the good tests with an .output file stand, the one
\* that lists them last is taken.
build_list_order(ts) ==
    /\ \A i, j, k \in DOMAIN ts :
         i < j /\ j < k => ~(~ts[i].is_good /\ ts[j].is_good /\ ~ts[k].is_good)
    /\ \A i, j \in DOMAIN ts :
         (i < j /\ ts[i].is_good /\ ts[j].is_good /\ ts[i].has_output)
             => ts[j].has_output

Corpora ==
    { ts \in UNION { [1..n -> TestCases] : n \in 0..MaxTests } :
        build_list_order(ts) }

\* main, lines 588-594: the flags append in this order.
BackendLists ==
    { bs \in { SelectSeq(BackendNames, LAMBDA b : b \in S) :
                 S \in SUBSET {"llvm", "x86", "x64"} } :
        Len(bs) <= MaxBackends }

\* The compilers the session meets follow the I/O contract: one accepts
\* the program, one rejects it.  (SpecClassify covers every stderr and
\* exit code.)
CompilerResults ==
    { CompilerResult(<<"O", "K", "\n">>, 0, <<"c">>),
      CompilerResult(<<"a", " ", "E", "R", "R", "O", "R", "\n">>, 1, <<"c">>) }

\* What a produced executable prints.
ProgramOutputs == { <<>>, <<"x">> }

\* The produced executables of the session.  (SpecRun covers every exit
\* code and stderr, which exec_test does not read.)
ProgramResults == { ProgramResult(o, 0, <<>>) : o \in ProgramOutputs }

\* The link calls of the session so far.
LinkCalls == Cardinality({ k \in DOMAIN trace : trace[k].op = "link" })

\* The random part of a tempfile.mkstemp name: characters drawn anew at
\* every call.  Two link calls of a session are taken never to draw the
\* same, and which characters they are does not matter to the driver, so
\* the draw of the n-th link call is written n.
RandomParts == { ToString(LinkCalls + 1) }

mkstemp(prefix, suffix, existing) ==
    { prefix \o r \o suffix : r \in RandomParts } \ existing

NoData == run_compiler_data(TRUE, CompilerResult(<<>>, 0, <<>>))

NoProbe == [phase |-> "off"]

\* There is no a.out, or it is not of this session.
NoProducer == [pass |-> -1, test |-> -1]

\* One run of the pipeline, on its own.
NoFirst == [run |-> 0, log |-> <<>>, passes |-> <<>>, trace |-> <<>>]

-----------------------------------------------------------------------------
(* The session: state after line 598 of main *)

Init ==
    /\ backends \in BackendLists
    /\ test_files \in Corpora
    /\ pc = "main"
    /\ suffix_i = 0
    /\ test_i = 0
    /\ tests_ok = 0
    /\ tests_bad = 0
    /\ failures = <<>>
    /\ printed = <<>>
    /\ data = NoData
    /\ tmp = <<>>
    /\ files = {}
    /\ exc = "none"
    /\ failure = FALSE
    /\ exit_code = -1
    /\ trace = <<>>
    /\ passes = <<>>
    /\ fatal = "none"
    /\ probe = NoProbe
    /\ created = {}
    /\ a_out = NoProducer
    /\ first = NoFirst

tests_total == Len(test_files)

\* A wrong run_tests: the type check pass hands exec_test a linker too.
linker_given == IF suffix_i = 0 THEN "llvm" ELSE backends[suffix_i]

\* run_tests, lines 512-517 (and None at line 498).
linker == IF suffix_i = 0 THEN NoLinker ELSE backends[suffix_i]

\* A child process launched for the current test, and how it ended: "pass"
\* or "fail" for a verdict, "ok" or "error" for the tools of a link,
\* "oserror" when the compiler or a.out could not be launched.
Event(op, result) ==
    [op |-> op, pass |-> suffix_i, test |-> test_i, result |-> result]

Verdict(is_ok) == IF is_ok THEN "pass" ELSE "fail"

\* A wrong driver: the exception is noted and the loop goes on.
Raise_swallowed(kind, stage, handler) ==
    /\ exc' = kind
    /\ fatal' = stage
    /\ pc' = "tests"

\* `raise` at stage `stage`; control goes to `handler`, the innermost
\* enclosing finally or except clause.
Raise(kind, stage, handler) ==
    /\ exc' = kind
    /\ fatal' = stage
    /\ pc' = handler

\* A wrong clean_files: nothing is removed.
clean_files_keeps(existing, names) == existing

\* Given a list of files, remove those that exist.
clean_files(existing, names) == existing \ names

\* A wrong loop body: a failed test is listed but not counted.
Record_uncounted(is_ok, d) ==
    /\ tests_ok' = IF is_ok THEN tests_ok + 1 ELSE tests_ok
    /\ tests_bad' = tests_bad
    /\ failures' = IF is_ok THEN failures
                   ELSE Append(failures, [name |-> test_i, data |-> d])
    /\ test_i' = test_i + 1

\* A wrong loop body: a failed test ends the loop over test_files.
Record_aborts(is_ok, d) ==
    /\ tests_ok' = IF is_ok THEN tests_ok + 1 ELSE tests_ok
    /\ tests_bad' = IF is_ok THEN tests_bad ELSE tests_bad + 1
    /\ failures' = IF is_ok THEN failures
                   ELSE Append(failures, [name |-> test_i, data |-> d])
    /\ test_i' = IF is_ok THEN test_i + 1 ELSE tests_total + 1

\* A wrong loop body: a failed test is tried again.
Record_retries(is_ok, d) ==
    /\ tests_ok' = IF is_ok THEN tests_ok + 1 ELSE tests_ok
    /\ tests_bad' = IF is_ok THEN tests_bad ELSE tests_bad + 1
    /\ failures' = IF is_ok THEN failures
                   ELSE Append(failures, [name |-> test_i, data |-> d])
    /\ test_i' = IF is_ok THEN test_i + 1 ELSE test_i

\* run_tests, lines 499-503 and 522-526, and the step of the for loop.
Record(is_ok, d) ==
    /\ tests_ok' = IF is_ok THEN tests_ok + 1 ELSE tests_ok
    /\ tests_bad' = IF is_ok THEN tests_bad ELSE tests_bad + 1
    /\ failures' = IF is_ok THEN failures
                   ELSE Append(failures, [name |-> test_i, data |-> d])
    /\ test_i' = test_i + 1

-----------------------------------------------------------------------------
(* main, the part of the try block before run_tests *)

\* main, lines 599-609: check_archive, check_contents and check_build pass.
ChecksPass ==
    /\ pc = "main"
    /\ pc' = "run_tests"
    /\ UNCHANGED <<backends, test_files, suffix_i, test_i, tests_ok,
                   tests_bad, failures, printed, data, tmp, files,
                   exc, failure, exit_code, trace, passes, fatal, probe, created,
                   first, a_out>>

\* main, lines 599-609: one of them raises TestingException.
ChecksFail ==
    /\ pc = "main"
    /\ Raise("TestingException", "checks", "except")
    /\ UNCHANGED <<backends, test_files, suffix_i, test_i, tests_ok,
                   tests_bad, failures, printed, data, tmp, files,
                   failure, exit_code, trace, passes, probe, created,
                   first, a_out>>

-----------------------------------------------------------------------------
(* run_tests: the loops *)

\* A wrong run_tests: the counters and the failure list are not
\* initialised.
RunTestsBegin_keeps ==
    /\ pc = "run_tests"
    /\ suffix_i' = 0
    /\ IF backends = <<>>
       THEN pc' = "tests" /\ test_i' = 1
       ELSE pc' = "backends" /\ test_i' = 0
    /\ UNCHANGED <<backends, test_files, tests_ok, tests_bad, failures,
                   printed, data, tmp, files, exc, failure, exit_code,
                   trace, passes, fatal, probe, created,
                   first, a_out>>

\* run_tests, lines 474-495 and 506-507.
RunTestsBegin ==
    /\ pc = "run_tests"
    /\ tests_ok' = 0
    /\ tests_bad' = 0
    /\ failures' = <<>>
    /\ suffix_i' = 0
    /\ IF backends = <<>>
       THEN pc' = "tests" /\ test_i' = 1
       ELSE pc' = "backends" /\ test_i' = 0
    /\ UNCHANGED <<backends, test_files, printed, data, tmp, files,
                   exc, failure, exit_code, trace, passes, fatal, probe, created,
                   first, a_out>>

\* A wrong run_tests: the counters are not reset for the next backend.
NextBackend_keeps_counts ==
    /\ pc = "backends"
    /\ suffix_i < Len(backends)
    /\ suffix_i' = suffix_i + 1
    /\ test_i' = 1
    /\ pc' = "tests"
    /\ UNCHANGED <<backends, test_files, tests_ok, tests_bad, failures,
                   printed, data, tmp, files, exc, failure, exit_code,
                   trace, passes, fatal, probe, created,
                   first, a_out>>

\* run_tests, lines 508-519: the next backend of the list.
NextBackend ==
    /\ pc = "backends"
    /\ suffix_i < Len(backends)
    /\ suffix_i' = suffix_i + 1
    /\ tests_ok' = 0
    /\ tests_bad' = 0
    /\ test_i' = 1
    /\ pc' = "tests"
    /\ UNCHANGED <<backends, test_files, failures, printed, data, tmp,
                   files, exc, failure, exit_code, trace, passes,
                   fatal, probe, created,
                   first, a_out>>

\* run_tests, line 508 with the list exhausted, and line 530.
BackendsDone ==
    /\ pc = "backends"
    /\ suffix_i = Len(backends)
    /\ pc' = "report"
    /\ UNCHANGED <<backends, test_files, suffix_i, test_i, tests_ok,
                   tests_bad, failures, printed, data, tmp, files,
                   exc, failure, exit_code, trace, passes, fatal, probe, created,
                   first, a_out>>

\* A wrong run_tests: the loop over the backends ends after its first pass.
TestsDone_stops ==
    /\ pc = "tests"
    /\ test_i > tests_total
    /\ passes' = Append(passes, [ok |-> tests_ok, bad |-> tests_bad])
    /\ pc' = "report"
    /\ UNCHANGED <<backends, test_files, suffix_i, test_i, tests_ok,
                   tests_bad, failures, printed, data, tmp, files,
                   exc, failure, exit_code, trace, fatal, probe, created,
                   first, a_out>>

\* run_tests, lines 497 and 520 with test_files exhausted (and line 529).
TestsDone ==
    /\ pc = "tests"
    /\ test_i > tests_total
    /\ passes' = Append(passes, [ok |-> tests_ok, bad |-> tests_bad])
    /\ pc' = IF backends = <<>> THEN "report" ELSE "backends"
    /\ UNCHANGED <<backends, test_files, suffix_i, test_i, tests_ok,
                   tests_bad, failures, printed, data, tmp, files,
                   exc, failure, exit_code, trace, fatal, probe, created,
                   first, a_out>>

-----------------------------------------------------------------------------
(* exec_test *)

\* run_compiler, lines 202-215: open() or subprocess.run raises OSError.
CompilerLaunchFails ==
    /\ pc = "tests"
    /\ test_i <= tests_total
    /\ trace' = Append(trace, Event("compile", "oserror"))
    /\ Raise("TestingException", "compiler", "except")
    /\ UNCHANGED <<backends, test_files, suffix_i, test_i, tests_ok,
                   tests_bad, failures, printed, data, tmp, files,
                   failure, exit_code, passes, probe, created,
                   first, a_out>>

\* What the driver reads of a child: all of a compiler's result, the stdout
\* of a produced executable.
Gave(op, child) == IF op = "run" THEN child.stdout ELSE child

\* subprocess.run at lines 204 and 268: the behaviours the child launched
\* at step op of the current test can show.  In the second of two runs the
\* child gives what it gave in the first, being a function of its inputs.
Children(op, all) ==
    IF first.run = 2
    THEN { child \in all :
             \E k \in DOMAIN first.log :
                 /\ first.log[k].op = op
                 /\ first.log[k].pass = suffix_i
                 /\ first.log[k].test = test_i
                 /\ first.log[k].gave = Gave(op, child) }
    ELSE all

\* In the first of two runs, what the child gave is noted.
Logged(op, child) ==
    first' = IF first.run = 1
             THEN [first EXCEPT !.log =
                     Append(@, [op |-> op, pass |-> suffix_i,
                                test |-> test_i, gave |-> Gave(op, child)])]
             ELSE first

\* exec_test, lines 246-251, with run_compiler; when exec_test returns
\* here, the loop body of run_tests that records its result.
Compile ==
    /\ pc = "tests"
    /\ test_i <= tests_total
    /\ \E child \in Children("compile", CompilerResults) :
         LET is_good == test_files[test_i].is_good
             compiler_success == run_compiler_check(is_good, child)
             d == run_compiler_data(is_good, child)
         IN  /\ trace' = Append(trace, Event("compile", Verdict(compiler_success)))
             /\ Logged("compile", child)
             /\ IF exec_test_quits(compiler_success, is_good, linker)
                THEN /\ Record(compiler_success, d)
                     /\ UNCHANGED <<pc, data>>
                ELSE /\ pc' = "link"
                     /\ data' = d
                     /\ UNCHANGED <<test_i, tests_ok, tests_bad, failures>>
    /\ UNCHANGED <<backends, test_files, suffix_i, printed, tmp, files, exc,
                   failure, exit_code, passes, fatal, probe, created, a_out>>

\* The run_command calls of the link function of each backend, in order.
LinkerTools(b) ==
    IF b = "llvm" THEN <<"llvm-as", "llvm-link", "clang">>
    ELSE <<"nasm", "clang">>

\* The files a tool writes: llvm-as to f (tmp), llvm-link to main.bc, nasm
\* to tmp_o, clang to a.out.
ToolOutput(tool, names) ==
    CASE tool = "llvm-as"   -> {names[1]}
      [] tool = "llvm-link" -> {"main.bc"}
      [] tool = "nasm"      -> {names[2]}
      [] tool = "clang"     -> {"a.out"}

\* link_llvm, lines 155-156, and link_x86, lines 170-173: the names the
\* mkstemp calls can return.
LinkMkstemp(b, existing) ==
    IF b = "llvm"
    THEN { <<t>> : t \in mkstemp("test_llvm_", ".bc", existing) }
    ELSE { <<tmp_s, tmp_o>> :
             tmp_s \in mkstemp("test_x86_", ".s", existing),
             tmp_o \in mkstemp("test_x86_", ".o", existing) }

\* The working directory after mkstemp and the first n run_command calls of
\* the try block, lines 158-161 and 183-186, all of them returning.
LinkTry(b, names, existing, n) ==
    existing \cup { names[j] : j \in DOMAIN names }
             \cup UNION { ToolOutput(LinkerTools(b)[j], names) : j \in 1..n }

\* The files the first n run_command calls of the try block wrote.
LinkWritten(b, names, n) ==
    UNION { ToolOutput(LinkerTools(b)[j], names) : j \in 1..n }

\* The names the finally clause of the link function hands to clean_files,
\* lines 164 and 190.
LinkTemporaries(b, names) ==
    IF b = "llvm" THEN {names[1], "main.bc"} ELSE {names[1], names[2]}

\* The a.out on disk after the tools of the current link call wrote the
\* files of `written`: clang writes it from the current test's compiler
\* output, otherwise it is the one that was there.
LinkWrote(written) ==
    IF "a.out" \in written
    THEN [pass |-> suffix_i, test |-> test_i]
    ELSE a_out

\* exec_test, line 255: the link function up to its finally clause, every
\* tool exiting with 0.
LinkSucceeds ==
    /\ pc = "link"
    /\ trace' = Append(trace, Event("link", "ok"))
    /\ \E names \in LinkMkstemp(linker, files) :
           /\ tmp' = names
           /\ files' = LinkTry(linker, names, files, Len(LinkerTools(linker)))
           /\ a_out' = LinkWrote(
                  LinkWritten(linker, names, Len(LinkerTools(linker))))
    /\ pc' = "link_finally"
    /\ UNCHANGED <<backends, test_files, suffix_i, test_i, tests_ok,
                   tests_bad, failures, printed, data, exc, failure,
                   exit_code, passes, fatal, probe, created, first>>

\* The same, with run_command number n raising at lines 146-148: the tool
\* exits non-zero, with or without having written its output.  (A tool that
\* cannot be launched raises OSError at line 140 and takes the same way
\* through the finally clause to the second handler of main.)
LinkToolFails ==
    /\ pc = "link"
    /\ trace' = Append(trace, Event("link", "error"))
    /\ \E names \in LinkMkstemp(linker, files) :
       \E n \in 1..Len(LinkerTools(linker)) :
       \E written \in SUBSET ToolOutput(LinkerTools(linker)[n], names) :
           /\ tmp' = names
           /\ files' = LinkTry(linker, names, files, n - 1) \cup written
           /\ a_out' = LinkWrote(LinkWritten(linker, names, n - 1) \cup written)
    /\ Raise("TestingException", "link", "link_finally")
    /\ UNCHANGED <<backends, test_files, suffix_i, test_i, tests_ok,
                   tests_bad, failures, printed, data, failure, exit_code,
                   passes, probe, created, first>>

\* A wrong driver: a failed link is recorded as a failed test and the loop
\* goes on.
LinkFinally_records ==
    /\ pc = "link_finally"
    /\ files' = clean_files(files, LinkTemporaries(linker, tmp))
    /\ tmp' = <<>>
    /\ IF exc = "none"
       THEN /\ pc' = "run"
            /\ UNCHANGED <<test_i, tests_ok, tests_bad, failures, data>>
       ELSE /\ pc' = "tests"
            /\ Record(FALSE, data)
            /\ data' = NoData
    /\ created' = created \cup LinkTemporaries(linker, tmp)
    /\ UNCHANGED <<backends, test_files, suffix_i, printed, exc, failure,
                   exit_code, trace, passes, fatal, probe, first, a_out>>

\* A wrong link function: its finally clause ends the exception, and
\* exec_test goes on to run ./a.out.
LinkFinally_swallows ==
    /\ pc = "link_finally"
    /\ files' = clean_files(files, LinkTemporaries(linker, tmp))
    /\ tmp' = <<>>
    /\ pc' = "run"
    /\ exc' = "none"
    /\ created' = created \cup LinkTemporaries(linker, tmp)
    /\ UNCHANGED <<backends, test_files, suffix_i, test_i, tests_ok,
                   tests_bad, failures, printed, data, failure,
                   exit_code, trace, passes, fatal, probe, first, a_out>>

\* link_llvm, lines 162-164, and link_x86, lines 187-190; then the call
\* returns to line 257 or the exception goes on to main.
LinkFinally ==
    /\ pc = "link_finally"
    /\ files' = clean_files(files, LinkTemporaries(linker, tmp))
    /\ tmp' = <<>>
    /\ pc' = IF exc = "none" THEN "run" ELSE "except"
    /\ created' = IF exc = "none"
                  THEN created \cup LinkTemporaries(linker, tmp)
                  ELSE created
    /\ UNCHANGED <<backends, test_files, suffix_i, test_i, tests_ok,
                   tests_bad, failures, printed, data, exc, failure,
                   exit_code, trace, passes, fatal, probe, first, a_out>>

\* exec_test, lines 260-264.
stdout_expected == exec_test_stdout_expected(test_files[test_i])

\* exec_test, lines 267-278: ./a.out cannot be launched.
RunLaunchFails ==
    /\ pc = "run"
    /\ trace' = Append(trace, Event("run", "oserror"))
    /\ Raise("TestingException", "run", "except")
    /\ UNCHANGED <<backends, test_files, suffix_i, test_i, tests_ok,
                   tests_bad, failures, printed, data, tmp, files,
                   failure, exit_code, passes, probe, created,
                   first, a_out>>

\* exec_test, lines 257-286, and the loop body of run_tests, lines 522-528.
Run ==
    /\ pc = "run"
    /\ "a.out" \in files
    /\ \E child \in Children("run", ProgramResults) :
         LET ok == exec_test_success(child, stdout_expected)
         IN  /\ trace' = Append(trace, Event("run", Verdict(ok)))
             /\ Logged("run", child)
             /\ Record(ok, [data EXCEPT !.stdout_expected = stdout_expected,
                                        !.stdout_actual = child.stdout])
    /\ data' = NoData
    /\ pc' = "tests"
    /\ UNCHANGED <<backends, test_files, suffix_i, printed, tmp, files, exc,
                   failure, exit_code, passes, fatal, probe, created, a_out>>

-----------------------------------------------------------------------------
(* run_tests: the results; main: the handlers *)

\* run_tests, line 533.
run_tests_success == tests_ok = tests_total

\* run_tests, lines 539-552: what is printed for one entry of failures.
FailureBlock(f) ==
    [name |-> f.name,
     stderr_block |-> f.data.stderr_expected # f.data.stderr_actual,
     stdout_block |-> Len(backends) > 0 /\ Len(f.data.stdout_expected) > 0]

\* run_tests, lines 532-552; run_tests then returns to main.
Report ==
    /\ pc = "report"
    /\ printed' =
         <<[success |-> run_tests_success,
            blocks |-> IF run_tests_success THEN <<>>
                       ELSE [i \in 1..Len(failures) |->
                                FailureBlock(failures[i])]]>>
    /\ pc' = "finally"
    /\ UNCHANGED <<backends, test_files, suffix_i, test_i, tests_ok,
                   tests_bad, failures, data, tmp, files, exc,
                   failure, exit_code, trace, passes, fatal, probe, created,
                   first, a_out>>

\* A wrong main: the finally clause exits without clean_files(['a.out']).
main_finally_keeps(failed) ==
    /\ files' = files
    /\ a_out' = a_out
    /\ exit_code' = IF failed THEN 1 ELSE 0
    /\ pc' = "done"

\* main, lines 622-633: the finally clause, with the value failure has.
main_finally(failed) ==
    /\ files' = clean_files(files, {"a.out"})
    /\ a_out' = IF "a.out" \in files' THEN a_out ELSE NoProducer
    /\ exit_code' = IF failed THEN 1 ELSE 0
    /\ pc' = "done"

\* A wrong main: the handlers leave failure as it was.
Except_keeps_failure ==
    /\ pc = "except"
    /\ main_finally(failure)
    /\ UNCHANGED <<backends, test_files, suffix_i, test_i, tests_ok,
                   tests_bad, failures, printed, data, tmp, exc, failure,
                   trace, passes, fatal, probe, created, first>>

\* main, lines 614-621: either handler sets failure; the finally clause
\* follows.
Except ==
    /\ pc = "except"
    /\ failure' = TRUE
    /\ main_finally(failure')
    /\ UNCHANGED <<backends, test_files, suffix_i, test_i, tests_ok,
                   tests_bad, failures, printed, data, tmp, exc, trace,
                   passes, fatal, probe, created, first>>

\* main, lines 622-633, after run_tests returned.
Finally ==
    /\ pc = "finally"
    /\ main_finally(failure)
    /\ UNCHANGED <<backends, test_files, suffix_i, test_i, tests_ok,
                   tests_bad, failures, printed, data, tmp, exc, failure,
                   trace, passes, fatal, probe, created, first>>

Next ==
    \/ ChecksPass
    \/ ChecksFail
    \/ RunTestsBegin
    \/ NextBackend
    \/ BackendsDone
    \/ TestsDone
    \/ CompilerLaunchFails
    \/ Compile
    \/ LinkSucceeds
    \/ LinkToolFails
    \/ LinkFinally
    \/ RunLaunchFails
    \/ Run
    \/ Report
    \/ Except
    \/ Finally

Spec == Init /\ [][Next]_vars

\* The sessions of Init, without those that have both as many tests and as
\* many backends as the bounds allow.
InitLive ==
    /\ Init
    /\ Len(test_files) < MaxTests \/ Len(backends) < MaxBackends

\* Every subprocess.run returns, the driver is one thread and nothing else
\* blocks it: the step that is enabled is taken.
SpecLive == InitLive /\ [][Next]_vars /\ WF_vars(Next)

-----------------------------------------------------------------------------
(* SpecTwice: the pipeline run twice in the same working directory *)

InitTwice ==
    /\ backends \in BackendLists
    /\ test_files \in { ts \in Corpora : Len(ts) <= MaxRerunTests }
    /\ pc = "main"
    /\ suffix_i = 0
    /\ test_i = 0
    /\ tests_ok = 0
    /\ tests_bad = 0
    /\ failures = <<>>
    /\ printed = <<>>
    /\ data = NoData
    /\ tmp = <<>>
    /\ files = {}
    /\ exc = "none"
    /\ failure = FALSE
    /\ exit_code = -1
    /\ trace = <<>>
    /\ passes = <<>>
    /\ fatal = "none"
    /\ probe = NoProbe
    /\ created = {}
    /\ a_out = NoProducer
    /\ first = [NoFirst EXCEPT !.run = 1]

\* The program is started again, lines 635-636 and main up to line 598, with
\* the same arguments and in the directory as the first run left it.  The
\* variables of run_tests and exec_test have no value in the new process
\* until the code assigns one: the model leaves in them what the first run
\* left.  The histories start again; the counts and the trace of the first
\* run are kept for comparison.
Rerun ==
    /\ pc = "done"
    /\ first.run = 1
    /\ first' = [first EXCEPT !.run = 2, !.passes = passes, !.trace = trace]
    /\ pc' = "main"
    /\ failure' = FALSE
    /\ exc' = "none"
    /\ exit_code' = -1
    /\ printed' = <<>>
    /\ trace' = <<>>
    /\ passes' = <<>>
    /\ fatal' = "none"
    /\ created' = {}
    /\ UNCHANGED <<backends, test_files, suffix_i, test_i, tests_ok,
                   tests_bad, failures, data, tmp, files, probe, a_out>>

\* Two runs in which no session-fatal condition occurs.
NextTwice ==
    \/ ChecksPass
    \/ RunTestsBegin
    \/ NextBackend
    \/ BackendsDone
    \/ TestsDone
    \/ Compile
    \/ LinkSucceeds
    \/ LinkFinally
    \/ Run
    \/ Report
    \/ Finally
    \/ Rerun

SpecTwice == InitTwice /\ [][NextTwice]_vars

-----------------------------------------------------------------------------
(* SpecClassify: exec_test up to line 251 on every stderr text *)

Alphabet == {"O", "K", "E", "R", "\n"}

StderrTexts == UNION { [1..n -> Alphabet] : n \in 0..MaxLen }

ExitCodes == {0, 1}

Linkers == {NoLinker, "llvm"}

InitClassify ==
    /\ backends = <<>>
    /\ test_files = <<>>
    /\ pc = "probe"
    /\ suffix_i = 0
    /\ test_i = 0
    /\ tests_ok = 0
    /\ tests_bad = 0
    /\ failures = <<>>
    /\ printed = <<>>
    /\ data = NoData
    /\ tmp = <<>>
    /\ files = {}
    /\ exc = "none"
    /\ failure = FALSE
    /\ exit_code = -1
    /\ trace = <<>>
    /\ passes = <<>>
    /\ fatal = "none"
    /\ created = {}
    /\ a_out = NoProducer
    /\ first = NoFirst
    /\ \E text \in StderrTexts : probe = [phase |-> "input", stderr |-> text]

\* exec_test, lines 246-251, for a compiler that was launched: returned
\* tells whether line 251 returns, is_ok is what it returns first.
ProbeExecTest(is_good) ==
    /\ probe.phase = "input"
    /\ \E returncode \in ExitCodes, l \in Linkers :
         LET child == CompilerResult(probe.stderr, returncode, <<"c">>)
             compiler_success == run_compiler_check(is_good, child)
         IN  probe' =
               [phase |-> "called",
                stderr |-> probe.stderr,
                returncode |-> returncode,
                is_good |-> is_good,
                linker |-> l,
                compiler_success |-> compiler_success,
                returned |-> exec_test_quits(compiler_success, is_good, l),
                is_ok |-> compiler_success,
                data |-> run_compiler_data(is_good, child)]
    /\ UNCHANGED sessionVars

NextClassify ==
    \/ ProbeExecTest(TRUE)
    \/ ProbeExecTest(FALSE)

SpecClassify == InitClassify /\ [][NextClassify]_vars

-----------------------------------------------------------------------------
(* SpecRun: exec_test from line 257 on every output and fixture *)

OutputAlphabet == {"x", "\r", "\n"}

OutputTexts == UNION { [1..n -> OutputAlphabet] : n \in 0..MaxOut }

\* A good test without an .output file, or with one of any contents.
Fixtures ==
    { TestCase(TRUE, FALSE, <<>>) }
        \cup { TestCase(TRUE, TRUE, o) : o \in OutputTexts }

InitRun ==
    /\ backends = <<"llvm">>
    /\ test_files = <<>>
    /\ pc = "probe"
    /\ suffix_i = 0
    /\ test_i = 0
    /\ tests_ok = 0
    /\ tests_bad = 0
    /\ failures = <<>>
    /\ printed = <<>>
    /\ data = NoData
    /\ tmp = <<>>
    /\ files = {}
    /\ exc = "none"
    /\ failure = FALSE
    /\ exit_code = -1
    /\ trace = <<>>
    /\ passes = <<>>
    /\ fatal = "none"
    /\ created = {}
    /\ a_out = NoProducer
    /\ first = NoFirst
    /\ \E t \in Fixtures : probe = [phase |-> "linked", test |-> t]

\* exec_test, lines 257-286, for a good test whose compile step passed and
\* whose link returned, with an a.out that could be launched: is_ok is the
\* first component of what exec_test returns.
ProbeRun ==
    /\ probe.phase = "linked"
    /\ \E o \in OutputTexts, rc \in {0, 1}, e \in { <<>>, <<"e">> } :
         LET child == ProgramResult(o, rc, e)
             expected == exec_test_stdout_expected(probe.test)
         IN  probe' =
               [phase |-> "ran",
                test |-> probe.test,
                child |-> child,
                is_ok |-> exec_test_success(child, expected),
                data |-> [NoData EXCEPT !.stdout_expected = expected,
                                        !.stdout_actual = child.stdout]]
    /\ UNCHANGED sessionVars

NextRun == ProbeRun

SpecRun == InitRun /\ [][NextRun]_vars

-----------------------------------------------------------------------------
(* Properties *)

\* The positions inside exec_test after run_compiler returned.
InExecTest == pc \in {"link", "link_finally", "run"}

\* The tests the compiler was launched for (or was tried to) in this pass.
CompiledInPass ==
    { k \in DOMAIN trace : trace[k].op = "compile" /\ trace[k].pass = suffix_i }

\* The verdicts "fail" of the whole session.
FailEvents == { k \in DOMAIN trace : trace[k].result = "fail" }

NoPassFailed == \A k \in DOMAIN passes : passes[k].bad = 0

\* C1: when the process has exited, its exit code is 0 exactly if no pass
\* ended with a failed test and no session-fatal condition occurred.
C1_ExitCodeTellsFailures ==
    pc = "done" => (exit_code = 0 <=> (fatal = "none" /\ NoPassFailed))

\* C2: after one or more backend passes, the report says "All tests
\* succeeded." exactly if every pass ended with no failed test.
C2_SuccessMeansEveryPass ==
    (printed # <<>> /\ backends # <<>>)
        => (printed[1].success <=> NoPassFailed)

\* C3: tests_ok + tests_bad is the number of tests processed so far in the
\* pass, never more than the number of tests, and all of them when a pass
\* completes.
C3_CountsAddUp ==
    /\ tests_ok + tests_bad <= tests_total
    /\ pc = "tests" => tests_ok + tests_bad = Cardinality(CompiledInPass)
    /\ InExecTest => tests_ok + tests_bad = Cardinality(CompiledInPass) - 1
    /\ \A k \in DOMAIN passes : passes[k].ok + passes[k].bad = tests_total

C3_Witness ==
    /\ Len(passes) = 2
    /\ tests_total = 2
    /\ passes[2].ok = 1
    /\ passes[2].bad = 1

\* C4: a linker is launched only right after the compile step of the same
\* test passed in the same pass, a produced executable only right after
\* that test's link, and both only for a good test with a backend active.
C4_LinkAndRunOnlyGoodCompiled ==
    \A k \in DOMAIN trace :
        trace[k].op \in {"link", "run"} =>
            LET c == IF trace[k].op = "link" THEN k - 1 ELSE k - 2
            IN  /\ backends # <<>>
                /\ trace[k].pass \in 1..Len(backends)
                /\ test_files[trace[k].test].is_good
                /\ c >= 1
                /\ trace[c] = [op |-> "compile", pass |-> trace[k].pass,
                               test |-> trace[k].test, result |-> "pass"]
                /\ trace[k].op = "run" =>
                       trace[k - 1] = [op |-> "link", pass |-> trace[k].pass,
                                       test |-> trace[k].test,
                                       result |-> "ok"]

\* A bad test whose compile step passed with a backend active, and a run.
C4_Witness ==
    /\ \E k \in DOMAIN trace :
           /\ trace[k].op = "compile"
           /\ trace[k].result = "pass"
           /\ trace[k].pass > 0
           /\ ~test_files[trace[k].test].is_good
    /\ \E k \in DOMAIN trace : trace[k].op = "run"

\* s is "OK" between any number of whitespace characters.
IsOKBetweenSpaces(s) ==
    \E i \in 1..(Len(s) - 1) :
        /\ s[i] = "O"
        /\ s[i + 1] = "K"
        /\ \A j \in DOMAIN s \ {i, i + 1} : s[j] \in Whitespace

\* s holds the five letters of "ERROR" in a row.
HoldsERROR(s) ==
    \E i \in 1..(Len(s) - 4) :
        /\ s[i] = "E"
        /\ s[i + 1] = "R"
        /\ s[i + 2] = "R"
        /\ s[i + 3] = "O"
        /\ s[i + 4] = "R"

\* C5: for a good test the compile step passes exactly if stderr, trimmed,
\* is "OK" and the exit code is 0.
C5_GoodPassesIffExactlyOK ==
    (probe.phase = "called" /\ probe.is_good) =>
        (probe.compiler_success <=>
            (IsOKBetweenSpaces(probe.stderr) /\ probe.returncode = 0))

\* A pass that needed the trimming.
C5_Witness ==
    /\ probe.phase = "called"
    /\ probe.is_good
    /\ probe.compiler_success
    /\ probe.stderr # OK

\* C6: for a bad test the compile step passes exactly if stderr contains
\* "ERROR" and the exit code is not 0, and exec_test returns that verdict
\* whatever the linker.
C6_BadPassesIffERROR ==
    (probe.phase = "called" /\ ~probe.is_good) =>
        /\ probe.compiler_success <=>
               (HoldsERROR(probe.stderr) /\ probe.returncode # 0)
        /\ probe.returned
        /\ probe.is_ok = probe.compiler_success

\* A pass with text around "ERROR" and a backend active.
C6_Witness ==
    /\ probe.phase = "called"
    /\ ~probe.is_good
    /\ probe.linker # NoLinker
    /\ probe.returned
    /\ probe.is_ok
    /\ probe.stderr # ERROR

\* C7: once a session-fatal condition occurred, no child process is launched
\* for a test and the loops do not advance.
C7_NothingAfterFatal ==
    [][fatal # "none" =>
          (trace' = trace /\ suffix_i' = suffix_i /\ test_i' = test_i)]_vars

\* An abort with a test and a backend left.
C7_Witness ==
    /\ pc = "done"
    /\ fatal = "run"
    /\ test_i < tests_total
    /\ suffix_i < Len(backends)

\* C8: a failed link is not a test outcome: the test is in neither count
\* and in no failure record, and the session is aborting.
C8_LinkFailureNotRecorded ==
    fatal = "link" =>
        /\ exc # "none"
        /\ pc \in {"link_finally", "except", "done"}
        /\ trace[Len(trace)].op = "link"
        /\ trace[Len(trace)].result = "error"
        /\ trace[Len(trace)].test = test_i
        /\ tests_ok + tests_bad = Cardinality(CompiledInPass) - 1
        /\ Len(failures) = Cardinality(FailEvents)

\* A failed link of the second test, after a failed and recorded first.
C8_Witness ==
    /\ pc = "done"
    /\ fatal = "link"
    /\ exc = "TestingException"
    /\ test_i = 2
    /\ tests_bad = 1

\* C9, as claimed: when the compiler cannot be launched both counts are 0,
\* the failure list is empty, no report is printed and the exit code is
\* not 0.
C9_NothingRecordedBeforeLaunchFailure ==
    fatal = "compiler" =>
        /\ tests_ok = 0
        /\ tests_bad = 0
        /\ failures = <<>>
        /\ printed = <<>>
        /\ pc = "done" => exit_code # 0

\* C9, amended: when the compiler cannot be launched for a test, nothing is
\* recorded for that test (the counts and the failure list hold the tests
\* before it, none when it is the first test of the first pass), no report
\* is printed and the exit code is not 0.
C9_LaunchFailureRecordsNothing ==
    fatal = "compiler" =>
        /\ tests_ok + tests_bad = Cardinality(CompiledInPass) - 1
        /\ Len(failures) = Cardinality(FailEvents)
        /\ Len(trace) = 1 =>
               (tests_ok = 0 /\ tests_bad = 0 /\ failures = <<>>)
        /\ printed = <<>>
        /\ pc = "done" => exit_code # 0

\* The compiler cannot be launched after a test was recorded as failed.
C9_Witness ==
    /\ pc = "done"
    /\ fatal = "compiler"
    /\ failures # <<>>

\* The files a link function created in the working directory: the session
\* starts in an empty one, and a.out is the only file the driver keeps.
LinkFileNames == files \ {"a.out"}

\* C10: outside a link call, none of the files a link call creates is in
\* the working directory.
C10_LinkLeavesNoTemporaries ==
    pc # "link_finally" => files \cap LinkFileNames = {}

\* A link aborted by a failing tool, with a.out in the working directory.
C10_Witness ==
    /\ pc = "except"
    /\ fatal = "link"
    /\ linker = "llvm"
    /\ "a.out" \in files

\* C11: when the process has exited, whether after the report or after a
\* session-fatal condition at any stage, a.out is not in the working
\* directory.
C11_NoExecutableLeft ==
    pc = "done" => "a.out" \notin files

\* The session aborts with the a.out of a linked test in the directory,
\* and the process exits.
C11_Witness ==
    /\ pc = "done"
    /\ fatal \in {"run", "compiler"}
    /\ \E k \in DOMAIN trace : trace[k].op = "link" /\ trace[k].result = "ok"

\* The values suffix_i takes in the passes of the session.
PassIndices == IF backends = <<>> THEN {0} ELSE 1..Len(backends)

\* The compiler was launched for test t in pass p.
Launched(p, t) ==
    \E k \in DOMAIN trace :
        trace[k].op = "compile" /\ trace[k].pass = p /\ trace[k].test = t

\* run_tests is past its loops, or has returned, and nothing was raised.
LoopsCompleted == fatal = "none" /\ pc \in {"report", "finally", "done"}

\* C12: a failed test does not end anything: when no session-fatal condition
\* occurred, every test was executed in every pass, whatever failed before.
C12_FailureNeverAborts ==
    LoopsCompleted =>
        \A p \in PassIndices, t \in DOMAIN test_files : Launched(p, t)

\* The first test of the first of two passes failed, and both passes were
\* completed.
C12_Witness ==
    /\ pc = "done"
    /\ fatal = "none"
    /\ tests_total = 2
    /\ Len(passes) = 2
    /\ trace[1].result = "fail"

\* The verdicts of the compile step in the trace.
CompileVerdicts(result) ==
    { k \in DOMAIN trace : trace[k].op = "compile" /\ trace[k].result = result }

\* C13: with no backend requested there is one pass, over every test in
\* turn; only the compiler is launched, no a.out is produced, and the counts
\* are the counts of the compile step's verdicts.
C13_TypecheckOnly ==
    backends = <<>> =>
        /\ \A k \in DOMAIN trace :
               /\ trace[k].op = "compile"
               /\ trace[k].pass = 0
               /\ trace[k].test = k
        /\ files = {}
        /\ tests_ok = Cardinality(CompileVerdicts("pass"))
        /\ tests_bad = Cardinality(CompileVerdicts("fail"))
        /\ Len(failures) = tests_bad
        /\ Len(passes) <= 1
        /\ LoopsCompleted =>
               /\ Len(trace) = tests_total
               /\ passes = <<[ok |-> tests_ok, bad |-> tests_bad]>>

\* A type check pass with a good test that passed its compile step (a
\* backend pass would link it) and a test that failed.
C13_Witness ==
    /\ backends = <<>>
    /\ pc = "done"
    /\ fatal = "none"
    /\ tests_total = 2
    /\ test_files[1].is_good
    /\ trace[1].result = "pass"
    /\ trace[2].result = "fail"

\* The event ends the cycle of its test with a verdict: the verdict of the
\* compile step when exec_test returns at line 251, or that of the run.
EndsCycle(e) ==
    \/ e.result = "fail"
    \/ e.result = "pass" /\ e.op = "run"
    \/ e.result = "pass" /\ e.op = "compile" /\ ~test_files[e.test].is_good

\* Event b may follow event a in a session with backends: the next step of
\* the same test's cycle, or the first step of the next test of the pass,
\* or, after the last test of a pass, the first test of the next pass.
FollowsInOrder(a, b) ==
    \/ /\ a.op = "compile" /\ a.result = "pass" /\ ~EndsCycle(a)
       /\ b.op = "link" /\ b.pass = a.pass /\ b.test = a.test
    \/ /\ a.op = "link" /\ a.result = "ok"
       /\ b.op = "run" /\ b.pass = a.pass /\ b.test = a.test
    \/ /\ EndsCycle(a)
       /\ b.op = "compile"
       /\ \/ b.pass = a.pass /\ b.test = a.test + 1
          \/ b.pass = a.pass + 1 /\ a.test = tests_total /\ b.test = 1

\* C14: with backends requested there is one pass per backend, in the order
\* of the list, each with the linker of its backend; a test's cycle is
\* complete before the next test's begins and a pass before the next pass.
\* (trace grows by one event at a time, so the order of the whole trace is
\* stated of its last two events.)
C14_PassesInOrder ==
    backends # <<>> =>
        /\ Len(trace) = 1 =>
               (trace[1].op = "compile" /\ trace[1].pass = 1 /\ trace[1].test = 1)
        /\ Len(trace) > 1 =>
               FollowsInOrder(trace[Len(trace) - 1], trace[Len(trace)])
        /\ trace # <<>> =>
               (trace[Len(trace)].pass \in PassIndices
                   /\ trace[Len(trace)].pass \in {suffix_i - 1, suffix_i})
        /\ pc = "link_finally" =>
               Len(tmp) = IF backends[suffix_i] = "llvm" THEN 1 ELSE 2
        /\ Len(passes) \in {suffix_i - 1, suffix_i}
        /\ pc = "backends" => Len(passes) = suffix_i
        /\ LoopsCompleted =>
               (suffix_i = Len(backends) /\ Len(passes) = Len(backends))

\* Two passes of two tests, with an executable run in each.
C14_Witness ==
    /\ pc = "done"
    /\ fatal = "none"
    /\ tests_total = 2
    /\ backends = <<"llvm", "x86">>
    /\ \E k \in DOMAIN trace : trace[k].op = "run" /\ trace[k].pass = 1
    /\ \E k \in DOMAIN trace : trace[k].op = "run" /\ trace[k].pass = 2

\* The verdicts of the tests of pass p.
VerdictsIn(p, result) ==
    { k \in DOMAIN trace :
        trace[k].pass = p /\ trace[k].result = result /\ EndsCycle(trace[k]) }

\* C15: when a backend pass has ended, its counts are the numbers of "pass"
\* and of "fail" verdicts of the tests run in that pass, whatever the
\* verdicts of the other passes were.
C15_CountsOfOwnPass ==
    (backends # <<>> /\ pc \in {"backends", "report"}) =>
        \A p \in DOMAIN passes :
            /\ passes[p].ok = Cardinality(VerdictsIn(p, "pass"))
            /\ passes[p].bad = Cardinality(VerdictsIn(p, "fail"))

\* Every test failed in the first pass and passed in the second.
C15_Witness ==
    /\ pc = "report"
    /\ tests_total = 2
    /\ passes = <<[ok |-> 0, bad |-> 2], [ok |-> 2, bad |-> 0]>>

\* The contents of the fixture of test case t, "" when it has none.
FixtureContents(t) == IF t.has_output THEN t.output ELSE <<>>

\* C16: for a good test with a backend whose compile passed and whose link
\* succeeded, the verdict is "pass" exactly if what a.out printed equals the
\* contents of the .output file (the empty text without one), whatever its
\* exit code and its stderr.
C16_PassIffOutputEqualsFixture ==
    probe.phase = "ran" =>
        (probe.is_ok <=> probe.child.stdout = FixtureContents(probe.test))

\* C18: the report renders the failure record of every test recorded as
\* failed in any pass of the session, in the order recorded.
C18_EveryFailureRendered ==
    printed # <<>> =>
        /\ Len(printed[1].blocks) = Len(failures)
        /\ \A i \in DOMAIN failures :
               printed[1].blocks[i].name = failures[i].name

\* C19: every rendered failure shows its stderr block, and shows its stdout
\* block exactly if a backend was active and the expected output is not
\* empty.
C19_StderrBlockAlways ==
    printed # <<>> =>
        \A i \in DOMAIN printed[1].blocks :
            /\ printed[1].blocks[i].stderr_block
            /\ printed[1].blocks[i].stdout_block <=>
                   (backends # <<>> /\ failures[i].data.stdout_expected # <<>>)

\* C20: the intermediate files of a link call (those its finally clause
\* cleans up) have names no earlier link call of the session used, for the
\* LLVM backend as for the x86 ones.
C20_LinkNamesUnique ==
    pc = "link_finally" => LinkTemporaries(linker, tmp) \cap created = {}

\* C17: the second of two runs with the same arguments, the same tests and
\* children that give what they gave in the first run starts in the
\* directory the first run started in, launches the same children with the
\* same verdicts and ends with the same counts for every pass.
C17_SecondRunSameCounts ==
    first.run = 2 =>
        /\ pc = "main" => files = {}
        /\ pc = "done" => (passes = first.passes /\ trace = first.trace)

\* Both runs are complete; the first linked and ran an executable and
\* counted a failed test.
C17_Witness ==
    /\ first.run = 2
    /\ pc = "done"
    /\ \E k \in DOMAIN first.log : first.log[k].op = "run"
    /\ \E k \in DOMAIN first.passes : first.passes[k].bad = 1

\* The step launches the compiler for a test of a pass.
LaunchesCompiler ==
    /\ Len(trace') = Len(trace) + 1
    /\ trace'[Len(trace')].op = "compile"

\* C21: when every child exits, the session ends, after the report or by a
\* session-fatal abort; the loops only move forward, and the compiler is
\* launched at most once for a test in a pass.
C21_Terminates ==
    /\ <>(pc = "done")
    /\ [][/\ suffix_i' >= suffix_i
          /\ suffix_i' = suffix_i => test_i' >= test_i
          /\ LaunchesCompiler =>
                 ~Launched(trace'[Len(trace')].pass, trace'[Len(trace')].test)
         ]_vars

\* A session of two passes that ended after its report, with a failed
\* test in the first.
C21_Witness ==
    /\ pc = "done"
    /\ printed # <<>>
    /\ Len(passes) = 2
    /\ passes[1].bad = 1

\* C22: when exec_test is about to run ./a.out for a test, the a.out on
\* disk is the one the link call of this test in this pass wrote, not one
\* left by an earlier test or pass.
C22_RunsOwnExecutable ==
    pc = "run" =>
        /\ "a.out" \in files
        /\ a_out = [pass |-> suffix_i, test |-> test_i]

\* About to run the executable of a test when an earlier test's executable
\* had been linked and run in the same directory.
C22_Witness ==
    /\ pc = "run"
    /\ \E k \in DOMAIN trace : trace[k].op = "run"

=============================================================================
